---- MODULE Spec2Model ----
(***************************************************************************)
(* Model of umu_delta (src/src/lib.rs): the in-place binary patcher        *)
(* bspatch_rs, the bzip2 writer bz2_decompress_rs, the two CRC32 readers   *)
(* crc32_rs / crc32_mmap_rs and the signature check ssh_verify_rs, all of  *)
(* them working on a raw file descriptor that the Python caller owns.      *)
(*                                                                         *)
(* The file is a sequence of bytes, the descriptor an open flag and a file *)
(* position.  Every operating-system call a function makes may fail: the   *)
(* call site that fails is an input of the action (`fault`).               *)
(***************************************************************************)
EXTENDS Integers, Sequences, FiniteSets, TLC

\* Longest content the caller hands in (file at start, patch target, payload).
MaxLen == 2

\* Longest file the model follows (bz2_decompress_rs may write past the end).
MaxFile == MaxLen + 1

\* Byte values of the contents the caller hands in; 0 is the fill byte of set_len.
Bytes == {1, 2}

\* Byte values of the files the model follows.
FileBytes == Bytes \cup {0}

InModel(f) == \A i \in 1..Len(f) : f[i] \in FileBytes

RECURSIVE SeqsUpTo(_, _)
SeqsUpTo(S, n) ==
    IF n = 0 THEN {<<>>}
    ELSE LET shorter == SeqsUpTo(S, n - 1)
         IN  shorter \cup {Append(s, b) : s \in {t \in shorter : Len(t) = n - 1}, b \in S}

Contents == SeqsUpTo(Bytes, MaxLen)

Min(a, b) == IF a < b THEN a ELSE b

Zeros(n) == [i \in 1..n |-> 0]

(***************************************************************************)
(* CRC-32 (crc32fast::Hasher).  A 32-bit value is the set of its set bits, *)
(* bit 0 the least significant: xor is the symmetric difference and a      *)
(* right shift lowers every bit by one.                                    *)
(***************************************************************************)
Word32 == 0..31

\* 0xEDB88320, the reflected IEEE 802.3 polynomial
PolyBits == {31, 30, 29, 27, 26, 24, 23, 21, 20, 19, 15, 9, 8, 5}

Xor(a, b) == (a \ b) \cup (b \ a)

Shr(a) == {i - 1 : i \in a \ {0}}

ByteBits(b) == {i \in 0..7 : (b \div (2 ^ i)) % 2 = 1}

CrcShift(c) == IF 0 \in c THEN Xor(Shr(c), PolyBits) ELSE Shr(c)

CrcByte(c, b) ==
    CrcShift(CrcShift(CrcShift(CrcShift(
    CrcShift(CrcShift(CrcShift(CrcShift(Xor(c, ByteBits(b))))))))))

RECURSIVE CrcFold(_, _, _)
CrcFold(c, buf, i) ==
    IF i > Len(buf) THEN c ELSE CrcFold(CrcByte(c, buf[i]), buf, i + 1)

\* Hasher::new, update(buf), finalize
HasherNew == Word32
HasherUpdate(c, buf) == CrcFold(c, buf, 1)
HasherFinalize(c) == Word32 \ c

(***************************************************************************)
(* A BSDIFF 4 patch as qbsdiff::Bspatch reads it: the header's target size *)
(* (a hint only), the control records (add, copy, seek) and the two data   *)
(* streams the records consume, delta and extra.                           *)
(***************************************************************************)
Ctrl(a, c, s) == [add |-> a, copy |-> c, seek |-> s]

Patch(ok, h, ctrl, delta, extra) ==
    [wellformed |-> ok, hint |-> h, ctrl |-> ctrl, delta |-> delta, extra |-> extra]

\* Bspatch::new: the header and the three streams parse
BspatchNew(patch) == patch.wellformed

hint_target_size(patch) == patch.hint

ApplyFailed == [ok |-> FALSE, out |-> <<>>]

\* One control record at a time: add `add` source bytes to delta bytes
\* (wrapping u8 addition), copy `copy` extra bytes, move the source cursor by
\* `seek`.  Reading past the source or past a stream, or seeking before the
\* start of the source, fails the whole application.
RECURSIVE ApplyFrom(_, _, _, _, _, _, _)
ApplyFrom(patch, src, i, cur, d, e, out) ==
    IF i > Len(patch.ctrl) THEN [ok |-> TRUE, out |-> out]
    ELSE LET c == patch.ctrl[i]
             added == [j \in 1..c.add |-> (src[cur + j] + patch.delta[d + j]) % 256]
             copied == SubSeq(patch.extra, e + 1, e + c.copy)
         IN  IF \/ cur + c.add > Len(src)
                \/ d + c.add > Len(patch.delta)
                \/ e + c.copy > Len(patch.extra)
                \/ cur + c.add + c.seek < 0
             THEN ApplyFailed
             ELSE ApplyFrom(patch, src, i + 1, cur + c.add + c.seek,
                            d + c.add, e + c.copy, out \o added \o copied)

\* a patcher for which a patch without records keeps the source
ApplyKeepingSource(patch, src) ==
    IF patch.ctrl = <<>> THEN [ok |-> TRUE, out |-> src]
    ELSE ApplyFrom(patch, src, 1, 0, 0, 0, <<>>)

\* patcher.apply(source, &mut target)
Apply(patch, src) == ApplyFrom(patch, src, 1, 0, 0, 0, <<>>)

(***************************************************************************)
(* The patches the caller can hand in.  MkDiff(O, T, h) is a delta         *)
(* compressor's output for original O and target T with h in the header:   *)
(* one record that rewrites the common length by differences and appends   *)
(* the rest of T as literals, and no record at all for an empty T.         *)
(***************************************************************************)
MkDiff(O, T, h) ==
    LET m == Min(Len(O), Len(T))
    IN  IF T = <<>> THEN Patch(TRUE, h, <<>>, <<>>, <<>>)
        ELSE Patch(TRUE, h, <<Ctrl(m, Len(T) - m, 0)>>,
                   [j \in 1..m |-> (T[j] - O[j]) % 256],
                   SubSeq(T, m + 1, Len(T)))

\* first byte of the source twice (a backward seek), and a seek before the start
SeekPatch(h, back) ==
    Patch(TRUE, h, <<Ctrl(1, 0, 0 - back), Ctrl(1, 0, 0)>>, <<0, 0>>, <<>>)

Garbage == Patch(FALSE, 0, <<>>, <<>>, <<>>)

Hints == 0..MaxLen

\* the originals a patch may have been made for: the file as it is, an empty
\* file, and a file one byte longer
Origins(current) == {current, <<>>, <<1>> \o current}

Patches(current) ==
    {MkDiff(O, T, h) : O \in Origins(current), T \in Contents, h \in Hints}
    \cup {SeekPatch(h, b) : h \in Hints, b \in 1..2}
    \cup {Garbage}

(***************************************************************************)
(* State.                                                                  *)
(*   file     the bytes of the caller's file                               *)
(*   pos      the file position of the caller's descriptor                 *)
(*   fdOpen   the descriptor is still open                                 *)
(*   ret      the call that has just returned to the caller, with what it  *)
(*            was given and what it did (NoRet between calls)              *)
(*   registry the digests of the trusted keys                              *)
(***************************************************************************)
VARIABLES file, pos, fdOpen, ret, registry

vars == <<file, pos, fdOpen, ret, registry>>

NoRet ==
    [op |-> "none", status |-> "none", err |-> "none", value |-> <<>>,
     pre |-> <<>>, prePos |-> 0, H |-> 0, emptyOps |-> FALSE,
     expect |-> ApplyFailed, applied |-> FALSE, target |-> <<>>,
     mapLen |-> 0, readEnd |-> 0, wrote |-> FALSE, writeEnd |-> 0,
     size |-> 0, data |-> <<>>, srcOk |-> FALSE,
     key |-> <<>>, msg |-> <<>>, sig |-> <<>>]

\* file.set_len(n): cut, or extend with zero bytes
SetLen(f, n) == IF n <= Len(f) THEN SubSeq(f, 1, n) ELSE f \o Zeros(n - Len(f))

(***************************************************************************)
(* bspatch_rs(source, patch)                                               *)
(***************************************************************************)
\* a patcher that never pre-grows the file
NeverGrow(L, H) == FALSE

\* line 33: the file is too short for the size the header announces
NeedsGrow(L, H) == L < H

\* MmapMut::map_mut(&file): the mapping covers the file as long as it is now
MapLen(f) == Len(f)

\* a patcher without the size check before the copy
NeverExceeds(T, mapLen) == FALSE

\* line 55: the produced target does not fit the mapping
ExceedsMap(T, mapLen) == T > mapLen

\* a patcher that never truncates
NeverSmall(T, L) == FALSE

\* line 65: the target is shorter than the file was
SmallFile(T, L) == T < L

\* line 62: mmap[..target.len()].copy_from_slice(&target[..]), seen in the file
CopyIn(f, target) == target \o SubSeq(f, Len(target) + 1, Len(f))

BspatchFaults == {"none", "metadata", "set_len", "mmap", "truncate", "advise"}

\* What one call does to a file holding f: the result, the file it leaves, and
\* whether the descriptor survives (File::from_raw_fd owns it until
\* std::mem::forget; an early return in between drops the File and closes it).
bspatch_run(f, patch, fault) ==
    LET L == Len(f)
        H == hint_target_size(patch)
        base == [NoRet EXCEPT !.op = "bspatch_rs", !.pre = f, !.H = H,
                              !.emptyOps = (patch.wellformed /\ patch.ctrl = <<>>),
                              !.expect = IF patch.wellformed THEN Apply(patch, f)
                                         ELSE ApplyFailed]
        Fail(r, kind, f2, open) ==
            [r |-> [r EXCEPT !.status = "err", !.err = kind], file |-> f2, open |-> open]
        grown == IF NeedsGrow(L, H) THEN SetLen(f, H) ELSE f
        mapLen == MapLen(grown)
        src == SubSeq(grown, 1, L)
        res == Apply(patch, src)
        T == Len(res.out)
        mapped == [base EXCEPT !.mapLen = mapLen, !.readEnd = L]
        applied == [mapped EXCEPT !.applied = TRUE, !.target = res.out]
        copied == [applied EXCEPT !.wrote = TRUE, !.writeEnd = T]
        written == CopyIn(grown, res.out)
        done == [copied EXCEPT !.status = "ok", !.value = res.out]
    IN  IF ~BspatchNew(patch) THEN Fail(base, "parse", f, TRUE)
        ELSE IF fault = "metadata" THEN Fail(base, "metadata", f, FALSE)
        ELSE IF NeedsGrow(L, H) /\ fault = "set_len" THEN Fail(base, "set_len", f, FALSE)
        ELSE IF fault = "mmap" THEN Fail(base, "mmap", grown, FALSE)
        ELSE IF ~res.ok THEN Fail(mapped, "apply", grown, TRUE)
        ELSE IF ExceedsMap(T, mapLen) THEN Fail(applied, "exceeds", grown, TRUE)
        ELSE IF SmallFile(T, L)
             THEN IF fault = "truncate" THEN Fail(copied, "truncate", written, FALSE)
                  ELSE IF fault = "advise"
                       THEN Fail(copied, "advise", SetLen(written, T), FALSE)
                       ELSE [r |-> done, file |-> SetLen(written, T), open |-> TRUE]
             ELSE IF fault = "advise" THEN Fail(copied, "advise", written, TRUE)
                  ELSE [r |-> done, file |-> written, open |-> TRUE]

Idle == ret.op = "none"

bspatch_rs ==
    /\ Idle /\ fdOpen
    /\ \E patch \in Patches(file), fault \in BspatchFaults :
         LET out == bspatch_run(file, patch, fault)
         IN  /\ InModel(out.file) /\ InModel(out.r.target)
             /\ ret' = out.r
             /\ file' = out.file
             /\ fdOpen' = out.open
    /\ UNCHANGED <<pos, registry>>

\* the Python caller takes the result
Return ==
    /\ ~Idle
    /\ ret' = NoRet
    /\ UNCHANGED <<file, pos, fdOpen, registry>>

(***************************************************************************)
(* bz2_decompress_rs(source, target, size)                                 *)
(***************************************************************************)
\* A compressed source: the bytes the decoder yields, and whether the stream
\* then ends well (ok) or breaks off malformed or truncated.
Sources == [data : Contents, ok : BOOLEAN]

\* write(2) at offset p: a gap past the end of the file reads as zeros
WriteAt(f, p, data) ==
    IF data = <<>> THEN f
    ELSE SetLen(f, p) \o data \o SubSeq(f, p + Len(data) + 1, Len(f))

Bz2Faults == {"none", "set_len", "write"}

bz2_run(f, p, source, size, fault) ==
    LET base == [NoRet EXCEPT !.op = "bz2_decompress_rs", !.pre = f, !.prePos = p,
                              !.size = size, !.data = source.data,
                              !.srcOk = source.ok]
        sized == SetLen(f, size)
        Out(r, f2, p2, open) == [r |-> r, file |-> f2, pos |-> p2, open |-> open]
    IN  IF fault = "set_len"
        THEN Out([base EXCEPT !.status = "err", !.err = "set_len"], f, p, FALSE)
        ELSE IF fault = "write" /\ source.data # <<>>
        THEN Out([base EXCEPT !.status = "err", !.err = "write"], sized, p, TRUE)
        ELSE IF ~source.ok
        THEN Out([base EXCEPT !.status = "err", !.err = "decode"],
                 WriteAt(sized, p, source.data), p + Len(source.data), TRUE)
        ELSE Out([base EXCEPT !.status = "ok", !.value = Len(source.data)],
                 WriteAt(sized, p, source.data), p + Len(source.data), TRUE)

bz2_decompress_rs ==
    /\ Idle /\ fdOpen
    /\ \E source \in Sources, size \in 0..MaxLen, fault \in Bz2Faults :
         /\ pos + Len(source.data) <= MaxFile
         /\ LET out == bz2_run(file, pos, source, size, fault)
             IN  /\ ret' = out.r
                 /\ file' = out.file
                 /\ pos' = out.pos
                 /\ fdOpen' = out.open
        /\ UNCHANGED registry

(***************************************************************************)
(* crc32_rs(source) and crc32_mmap_rs(source)                              *)
(***************************************************************************)
\* a reader that loses the first byte it reads
ReadToEndSkipping(f, p) == SubSeq(f, p + 2, Len(f))

\* file.read_to_end(&mut buffer): from the file position to the end
ReadToEnd(f, p) == SubSeq(f, p + 1, Len(f))

\* &mmap[..]: the whole file
MapAll(f) == f

Crc32(buf) == HasherFinalize(HasherUpdate(HasherNew, buf))

\* crc32_rs: the checksum of what is read from position p on
crc32_buffered(f, p) == Crc32(ReadToEnd(f, p))

\* crc32_mmap_rs: the checksum of the mapping, of nothing when Mmap::map fails
crc32_mapped(f, mapOk) ==
    IF mapOk THEN Crc32(MapAll(f)) ELSE HasherFinalize(HasherNew)

crc32_rs ==
    /\ Idle /\ fdOpen
    /\ \E fault \in {"none", "read"} :
         LET base == [NoRet EXCEPT !.op = "crc32_rs", !.pre = file, !.prePos = pos]
         IN  IF fault = "read"
             THEN /\ ret' = [base EXCEPT !.status = "err", !.err = "read"]
                  /\ fdOpen' = FALSE
                  /\ UNCHANGED pos
             ELSE /\ ret' = [base EXCEPT !.status = "ok",
                                         !.value = crc32_buffered(file, pos)]
                  /\ pos' = IF pos < Len(file) THEN Len(file) ELSE pos
                  /\ UNCHANGED fdOpen
    /\ UNCHANGED <<file, registry>>

crc32_mmap_rs ==
    /\ Idle /\ fdOpen
    /\ \E fault \in {"none", "mmap"} :
         ret' = [NoRet EXCEPT !.op = "crc32_mmap_rs", !.pre = file, !.prePos = pos,
                              !.status = "ok",
                              !.err = IF fault = "mmap" THEN "mmap" ELSE "none",
                              !.value = crc32_mapped(file, fault # "mmap")]
    /\ UNCHANGED <<file, pos, fdOpen, registry>>

(***************************************************************************)
(* ssh_verify_rs(source, message, pem), and the check of the key against   *)
(* the trusted digests that the caller runs before it.                     *)
(***************************************************************************)
NAMESPACE == "umu.openwinecomponents.org"

KeyData == {"K1", "K2"}

\* a public key line: algorithm, key material, comment
KeyTexts == [alg : {"ssh-ed25519", "bogus"}, material : KeyData, comment : {"umu", "x"}]

Messages == {"manifest-a", "manifest-b"}

\* a signature envelope: whether the PEM parses, the namespace it was made
\* for, the key that made it and the message it was made over
Envelopes == [pem : BOOLEAN, namespace : {NAMESPACE, "file"}, signer : KeyData,
              signed : Messages]

\* PublicKey::from_openssh
FromOpenssh(text) == [ok |-> text.alg = "ssh-ed25519", key |-> text.material]

\* PublicKey::verify(namespace, message, sig)
Verify(key, namespace, message, sig) ==
    /\ sig.signer = key
    /\ sig.namespace = namespace
    /\ sig.signed = message

ssh_verify_run(source, message, pem) ==
    IF ~FromOpenssh(source).ok THEN [status |-> "err", err |-> "key"]
    ELSE IF ~pem.pem THEN [status |-> "err", err |-> "pem"]
    ELSE IF ~Verify(FromOpenssh(source).key, NAMESPACE, message, pem)
    THEN [status |-> "err", err |-> "InvalidData"]
    ELSE [status |-> "ok", err |-> "none"]

ssh_verify_rs ==
    /\ Idle
    /\ \E source \in KeyTexts, message \in Messages, pem \in Envelopes :
         LET out == ssh_verify_run(source, message, pem)
         IN  ret' = [NoRet EXCEPT !.op = "ssh_verify_rs", !.key = source,
                                  !.msg = message, !.sig = pem,
                                  !.status = out.status, !.err = out.err]
    /\ UNCHANGED <<file, pos, fdOpen, registry>>

\* the digest of the raw bytes of a key line: no two lines share one
Digest(text) == <<"digest", text>>

TrustedKeyText == [alg |-> "ssh-ed25519", material |-> "K1", comment |-> "umu"]

Registry == {Digest(TrustedKeyText)}

\* a gate that lets every key through
TrustAnyKey(text, reg) == TRUE

is_trusted_key(text, reg) == Digest(text) \in reg

\* the gate in front of the patch engine: the key first, then the signature
trust_check_run(source, message, pem, reg) ==
    IF ~is_trusted_key(source, reg) THEN [status |-> "err", err |-> "UntrustedKey"]
    ELSE ssh_verify_run(source, message, pem)

trust_check ==
    /\ Idle
    /\ \E source \in KeyTexts, message \in Messages, pem \in Envelopes :
         LET out == trust_check_run(source, message, pem, registry)
         IN  ret' = [NoRet EXCEPT !.op = "trust_check", !.key = source,
                                  !.msg = message, !.sig = pem,
                                  !.status = out.status, !.err = out.err]
    /\ UNCHANGED <<file, pos, fdOpen, registry>>

(***************************************************************************)
(* Specifications.  The trust functions touch no file and the file         *)
(* functions no key, so each half is also a specification of its own.      *)
(***************************************************************************)
Init ==
    /\ file \in Contents
    /\ pos = 0
    /\ fdOpen = TRUE
    /\ ret = NoRet
    /\ registry = Registry

FileNext ==
    \/ bspatch_rs
    \/ bz2_decompress_rs
    \/ crc32_rs
    \/ crc32_mmap_rs
    \/ Return

TrustNext ==
    \/ ssh_verify_rs
    \/ trust_check
    \/ Return

Next == FileNext \/ TrustNext

Spec == Init /\ [][Next]_vars

FileSpec == Init /\ [][FileNext]_vars

TrustSpec == Init /\ [][TrustNext]_vars

(***************************************************************************)
(* Properties.                                                             *)
(***************************************************************************)
\* the errors that come from a failing operating-system call
OsFailures == {"metadata", "set_len", "mmap", "truncate", "advise", "read", "write"}

Patched == ret.op = "bspatch_rs"

\* the patch turns the file's content into expect.out and announces its length
GoodPatch == Patched /\ ret.expect.ok /\ ret.H = Len(ret.expect.out)

\* C1: a patch correctly generated from O to T, with the size hint len(T),
\* applied to a file holding O while no operating-system call fails, succeeds,
\* returns T and leaves a file whose bytes and length are those of T, whether
\* T is longer than, shorter than or as long as O.
C1_PatchYieldsTarget ==
    GoodPatch /\ ret.err \notin OsFailures =>
        /\ ret.status = "ok"
        /\ ret.value = ret.expect.out
        /\ file = ret.expect.out

\* a file patched down to a shorter, non-empty target
C1_Witness ==
    /\ GoodPatch /\ ret.status = "ok"
    /\ ret.expect.out # <<>>
    /\ Len(ret.expect.out) < Len(ret.pre)
    /\ file = ret.expect.out

\* C2: after every successful apply_patch the file is as long as the output
\* that was produced, never as long as the size hint.
C2_FinalLengthIsOutputLength ==
    Patched /\ ret.status = "ok" => Len(file) = Len(ret.value)

\* a patch with hint 0 and a non-empty output, and no failing system call
HintZero ==
    /\ Patched /\ ret.H = 0
    /\ ret.expect.ok /\ ret.expect.out # <<>>
    /\ ret.err \notin OsFailures

\* C3 as stated: a patch whose hint is 0 and whose output is not empty
\* succeeds and leaves the output in the file, for every original length.
C3_HintZeroExtends ==
    HintZero => ret.status = "ok" /\ file = ret.expect.out

\* C3 as amended: with hint 0 and a non-empty output of length T, the call
\* succeeds and leaves exactly the output when T <= L; when T > L it fails with
\* "Patch exceeds mapped file size" and the file is as it was (not emptied).
C3_HintZeroFitsOrFails ==
    HintZero =>
        IF Len(ret.expect.out) <= Len(ret.pre)
        THEN ret.status = "ok" /\ ret.value = ret.expect.out /\ file = ret.expect.out
        ELSE ret.status = "err" /\ ret.err = "exceeds" /\ file = ret.pre

C3_Witness ==
    /\ HintZero
    /\ ret.pre # <<>>
    /\ Len(ret.expect.out) > Len(ret.pre)
    /\ ret.err = "exceeds"
    /\ file = ret.pre

\* C4: the caller's descriptor is open when any of the four file functions
\* returns, on success and on every error.
C4_DescriptorStaysOpen ==
    ret.op \in {"bspatch_rs", "bz2_decompress_rs", "crc32_rs", "crc32_mmap_rs"}
        => fdOpen

\* C5: when apply_patch returns an error, no byte of the mapping has been
\* overwritten: the file holds the content it had before the call, at most
\* grown to the size hint by step 2.
C5_ErrorBeforeMutation ==
    Patched /\ ret.status = "err" => file \in {ret.pre, SetLen(ret.pre, ret.H)}

\* C6: decompress_to with a final_size below the decompressed length of a
\* well-formed source fails.
C6_ShortSizeFails ==
    /\ ret.op = "bz2_decompress_rs"
    /\ ret.srcOk
    /\ ret.size < Len(ret.data)
    => ret.status = "err"

\* C7 as stated: on a handle to the same file, the value one checksum function
\* returns is the value the other returns.
C7_ChecksumsAgree ==
    /\ ret.op = "crc32_rs" /\ ret.status = "ok" =>
           \A mapOk \in BOOLEAN : ret.value = crc32_mapped(ret.pre, mapOk)
    /\ ret.op = "crc32_mmap_rs" =>
           ret.value = crc32_buffered(ret.pre, ret.prePos)

\* C7 as amended: the two agree when the handle is positioned at the start of
\* the file and the mapping succeeds, and they always agree on an empty file.
C7_ChecksumsAgreeFromStart ==
    /\ ret.op = "crc32_rs" /\ ret.status = "ok" =>
           /\ ret.prePos = 0 => ret.value = crc32_mapped(ret.pre, TRUE)
           /\ ret.pre = <<>> =>
                  \A mapOk \in BOOLEAN : ret.value = crc32_mapped(ret.pre, mapOk)
    /\ ret.op = "crc32_mmap_rs" =>
           /\ ret.prePos = 0 /\ ret.err = "none" =>
                  ret.value = crc32_buffered(ret.pre, 0)
           /\ ret.pre = <<>> => ret.value = crc32_buffered(ret.pre, ret.prePos)

C7_Witness ==
    /\ ret.op = "crc32_rs" /\ ret.status = "ok"
    /\ ret.prePos = 0
    /\ Len(ret.pre) = MaxLen
    /\ ret.value = crc32_mapped(ret.pre, TRUE)
    /\ ret.value # crc32_mapped(ret.pre, FALSE)

\* a patch without any diff operation, and no failing system call
EmptyPatch == Patched /\ ret.emptyOps /\ ret.err \notin OsFailures

C9_OnlyRegistryKeysTrusted ==
    /\ registry = Registry
    /\ ret.op = "trust_check" /\ Digest(ret.key) \notin Registry
           => ret.status # "ok"

\* a key outside the registry with a signature that verifies, turned away
C9_Witness ==
    /\ ret.op = "trust_check"
    /\ Digest(ret.key) \notin Registry
    /\ ssh_verify_run(ret.key, ret.msg, ret.sig).status = "ok"
    /\ ret.status = "err" /\ ret.err = "UntrustedKey"

\* C10: the original is read as the first L bytes of a mapping at least L
\* long, the target is written only inside the mapping, and a target longer
\* than the mapping is an error that writes nothing.
C10_MappedAccessInBounds ==
    Patched =>
        /\ ret.readEnd <= ret.mapLen
        /\ ret.wrote => ret.writeEnd <= ret.mapLen
        /\ ret.applied /\ Len(ret.target) > ret.mapLen =>
               /\ ret.status = "err" /\ ret.err = "exceeds"
               /\ ~ret.wrote
               /\ file = SetLen(ret.pre, ret.mapLen)

C10_Witness ==
    /\ Patched /\ ret.applied
    /\ ret.mapLen > Len(ret.pre)
    /\ Len(ret.target) > ret.mapLen
    /\ ret.err = "exceeds"

====
